---- MODULE Spec2Model ----
(***************************************************************************)
(* A model of the beton slab allocator: the Indexer with its inline        *)
(* BitArray and growable BitVec backends (src/src/indexer), the Slab that  *)
(* pairs it with a Vec<MaybeUninit<T>> (src/src/slab.rs) and the borrowing *)
(* iterators (src/src/iter).                                               *)
(*                                                                         *)
(* Positions are 0-based as in the source; TLA+ sequences are 1-based, so  *)
(* word w of a backend is entries[w + 1] and slot p of the slab is         *)
(* entries[p + 1].                                                         *)
(***************************************************************************)
EXTENDS Integers, Sequences, FiniteSets, TLC

(***************************************************************************)
(* Bounds of the model.                                                    *)
(***************************************************************************)
\* Width of a machine word in bits.  The source uses usize::BITS (64); every
\* algorithm is written against usize::BITS and not against the number 64,
\* and the model runs them on a narrower word.
BITS == 2
\* Longest iterator handed to Slab::from_iter in the initial state.
MaxInit == 5
\* Number of mutating calls made after construction.
MaxOps == 3
\* Keys 0..MaxKey are tried by remove, get and contains_key, next to the
\* key equal to the current capacity and the far key of the regression test.
MaxKey == 3
\* Largest `additional` passed to reserve.
MaxReserve == 1
\* Largest `new_len` passed to resize.
MaxResize == 1
\* Calls that would grow the index beyond this many words are not made.
MaxWords == 20
\* A consuming iterator yields at most this many items before it is dropped.
MaxYield == 2
\* Positions 0..MaxPos are handed to the Indexer when it is driven directly,
\* next to the positions the promotion test uses.
MaxPos == 5
\* Most values a slab is filled with before the calls on a filled slab start:
\* the positions of the smallest dynamic index, BITS * (BITS * CAPACITY).
MaxFill == 8
\* Most calls of next() made on one unoccupied() iterator.
MaxNext == 3

(***************************************************************************)
(* Program constants.                                                      *)
(***************************************************************************)
\* indexer/mod.rs: const CAPACITY: usize = 2 (words of the inline backend).
CAPACITY == 2
\* tests/regression.rs: the far out-of-range key of remove_out_of_bounds.
FarKey == 4215

\* A vacant MaybeUninit cell.  Values stored by callers are 1, 2, 3, ...
Uninit == 0

None == <<>>
Some(x) == <<x>>
IsSome(o) == Len(o) = 1
Unwrap(o) == o[1]

Max(a, b) == IF a >= b THEN a ELSE b

RECURSIVE Pow2(_)
Pow2(n) == IF n = 0 THEN 1 ELSE 2 * Pow2(n - 1)

\* usize::MAX for the word width of the model.
WordMax == Pow2(BITS) - 1

\* `*entry & mask == mask` for a one-bit mask.
HasMask(entry, mask) == (entry \div mask) % 2 = 1
\* `*entry |= mask` for a one-bit mask.
OrMask(entry, mask) == IF HasMask(entry, mask) THEN entry ELSE entry + mask
\* `*entry &= !mask` for a one-bit mask.
AndNotMask(entry, mask) == IF HasMask(entry, mask) THEN entry - mask ELSE entry

RECURSIVE count_ones(_)
count_ones(entry) == IF entry = 0 THEN 0 ELSE (entry % 2) + count_ones(entry \div 2)

RECURSIVE SumOnes(_)
SumOnes(ws) == IF ws = <<>> THEN 0 ELSE count_ones(Head(ws)) + SumOnes(Tail(ws))

Zeros(n) == [i \in 1..n |-> 0]

\* indexer/utils.rs compute_index: the word a position lives in and its mask.
compute_index(index) ==
    [pos |-> index \div BITS, mask |-> Pow2(index % BITS)]

(***************************************************************************)
(* The two backends share the layout `entries: [usize]`.  An Indexer value *)
(* is the record [inner, entries, cap, count]:                             *)
(*   inner   "BitArray" or "BitVec" (enum Inner)                           *)
(*   entries the words                                                     *)
(*   cap     Vec::capacity() of entries (BitVec); CAPACITY for BitArray    *)
(*   count   BitVec::count; 0 and unused for BitArray.  A negative count   *)
(*           stands for the wrapped value count + 2^BITS_of_usize of a     *)
(*           release build.                                                *)
(***************************************************************************)

\* BitArray::contains / BitVec::contains (same body in both backends).
Bits_contains(ws, index) ==
    LET ci == compute_index(index)
    IN  IF ci.pos < Len(ws) THEN HasMask(ws[ci.pos + 1], ci.mask) ELSE FALSE

\* BitArray::new
BitArray_new == [inner |-> "BitArray", entries |-> Zeros(CAPACITY),
                 cap |-> CAPACITY, count |-> 0]

\* BitVec::with_capacity: vec![0; capacity], count 0.
BitVec_with_capacity(capacity) ==
    [inner |-> "BitVec", entries |-> Zeros(capacity),
     cap |-> capacity, count |-> 0]

\* BitArray::capacity / BitVec::capacity
BitArray_capacity(ix) == BITS * CAPACITY
BitVec_capacity(ix) == BITS * ix.cap

\* BitArray::len / BitVec::len
BitArray_len(ix) == SumOnes(ix.entries)
BitVec_len(ix) == ix.count

\* Indexer::capacity, Indexer::len, Indexer::contains, Indexer::is_empty
Indexer_capacity(ix) ==
    IF ix.inner = "BitVec" THEN BitVec_capacity(ix) ELSE BitArray_capacity(ix)
Indexer_len(ix) ==
    IF ix.inner = "BitVec" THEN BitVec_len(ix) ELSE BitArray_len(ix)
Indexer_contains(ix, index) == Bits_contains(ix.entries, index)
Indexer_is_empty(ix) ==
    IF ix.inner = "BitVec" THEN BitVec_len(ix) = 0
    ELSE \A w \in 1..Len(ix.entries) : ix.entries[w] = 0

\* Indexer::new / Indexer::with_capacity
Indexer_new == BitArray_new
Indexer_with_capacity(capacity) ==
    IF capacity < BITS * CAPACITY THEN Indexer_new
    ELSE BitVec_with_capacity(capacity)

(***************************************************************************)
(* Operations that may panic return [ix, ret, out] with out one of "ok"    *)
(* and "panic"; a panicking call leaves ix as it was passed in.            *)
(* `debug` says whether overflow checks and debug_assert! are compiled in. *)
(***************************************************************************)

\* BitArray::insert
BitArray_insert(ix, index, debug) ==
    LET ci == compute_index(index)
    IN  IF (debug /\ ~(index < BitArray_capacity(ix))) \/ ~(ci.pos < Len(ix.entries))
        THEN [ix |-> ix, out |-> "panic"]
        ELSE [ix |-> [ix EXCEPT !.entries[ci.pos + 1] = OrMask(@, ci.mask)],
              out |-> "ok"]

\* BitVec::insert
BitVec_insert(ix, index, debug) ==
    LET ci == compute_index(index)
    IN  IF (debug /\ ~(index < BitVec_capacity(ix))) \/ ~(ci.pos < Len(ix.entries))
        THEN [ix |-> ix, out |-> "panic"]
        ELSE [ix |-> [ix EXCEPT !.entries[ci.pos + 1] = OrMask(@, ci.mask),
                                !.count = @ + 1],
              out |-> "ok"]

\* The value `ret` of BitArray::remove and BitVec::remove:
\* `let (index, mask) = compute_index(index); let ret = self.contains(index);`
\* contains is asked about the word position that shadows the argument.
Bits_remove_ret(ws, index) ==
    LET ci == compute_index(index)
    IN  Bits_contains(ws, ci.pos)

\* BitArray::remove with the word indexed directly (`self.entries[index]`)
\* instead of through get_mut: out of range it panics.
BitArray_remove_indexed(ix, index, debug) ==
    LET ci == compute_index(index)
        ret == Bits_remove_ret(ix.entries, index)
    IN  IF ci.pos < Len(ix.entries)
        THEN [ix |-> [ix EXCEPT !.entries[ci.pos + 1] = AndNotMask(@, ci.mask)],
              ret |-> ret, out |-> "ok"]
        ELSE [ix |-> ix, ret |-> FALSE, out |-> "panic"]

\* BitArray::remove
BitArray_remove(ix, index, debug) ==
    LET ci == compute_index(index)
        ret == Bits_remove_ret(ix.entries, index)
    IN  IF ci.pos < Len(ix.entries)
        THEN [ix |-> [ix EXCEPT !.entries[ci.pos + 1] = AndNotMask(@, ci.mask)],
              ret |-> ret, out |-> "ok"]
        ELSE [ix |-> ix, ret |-> FALSE, out |-> "ok"]

\* BitVec::remove: `self.count -= 1` runs for every in-range word, whether
\* or not the bit was set; on count = 0 it panics in a debug build and
\* wraps in a release build.
BitVec_remove(ix, index, debug) ==
    LET ci == compute_index(index)
        ret == Bits_remove_ret(ix.entries, index)
    IN  IF ci.pos < Len(ix.entries)
        THEN IF debug /\ ix.count = 0
             THEN [ix |-> ix, ret |-> FALSE, out |-> "panic"]
             ELSE [ix |-> [ix EXCEPT !.entries[ci.pos + 1] = AndNotMask(@, ci.mask),
                                     !.count = @ - 1],
                   ret |-> ret, out |-> "ok"]
        ELSE [ix |-> ix, ret |-> FALSE, out |-> "ok"]

\* Indexer::remove
Indexer_remove(ix, index, debug) ==
    IF ix.inner = "BitVec" THEN BitVec_remove(ix, index, debug)
    ELSE BitArray_remove(ix, index, debug)

\* BitArray::clear / BitVec::clear / Indexer::clear
BitArray_clear(ix) == [ix EXCEPT !.entries = Zeros(Len(ix.entries))]
\* BitVec::clear without `self.count = 0`: the words are wiped, the counter
\* keeps its value.
BitVec_clear_keep_count(ix) == [ix EXCEPT !.entries = Zeros(Len(ix.entries))]
\* BitVec::clear lowering the counter by the number of bits it wipes instead
\* of setting it to 0.
BitVec_clear_subtract(ix) ==
    [ix EXCEPT !.entries = Zeros(Len(ix.entries)), !.count = @ - SumOnes(ix.entries)]
BitVec_clear(ix) == [ix EXCEPT !.entries = Zeros(Len(ix.entries)), !.count = 0]
Indexer_clear(ix) ==
    IF ix.inner = "BitVec" THEN BitVec_clear(ix) ELSE BitArray_clear(ix)

\* Vec::resize on the words: the new Vec::capacity().  Growing past the
\* capacity reallocates to max(2 * capacity, new_len) (alloc::raw_vec
\* amortised growth); truncating keeps the allocation.
VecGrowCap(cap, new_len) ==
    IF new_len > cap THEN Max(2 * cap, new_len) ELSE cap

\* BitVec::resize
BitVec_resize(ix, new_len) ==
    LET current_length == Len(ix.entries)
        resized == [i \in 1..new_len |->
                       IF i <= current_length THEN ix.entries[i] ELSE 0]
    IN  [ix EXCEPT !.entries = resized,
                   !.cap = VecGrowCap(ix.cap, new_len),
                   !.count = IF new_len < current_length
                             THEN SumOnes(resized) ELSE @]

(***************************************************************************)
(* Iterators over an index.  The state of an iterator is [cursor,          *)
(* remaining]; the borrowed (or owned) backend is passed alongside.        *)
(***************************************************************************)

\* bit_array::Occupied::new, bit_vec::Occupied::new and the IntoOccupied::new
\* of both backends: cursor 0, remaining = len().
Occupied_new(ix) == [cursor |-> 0, remaining |-> Indexer_len(ix)]

\* The `for index in self.cursor..capacity` loop of Occupied::next and
\* IntoOccupied::next, entered at `index`; the cursor is bumped once per
\* iteration, so it is index + 1 after the iteration for `index`.
RECURSIVE Occupied_scan(_, _, _)
Occupied_scan(ix, it, index) ==
    IF index >= Indexer_capacity(ix)
    THEN [ret |-> None, it |-> [it EXCEPT !.cursor = Max(index, it.cursor)]]
    ELSE IF Indexer_contains(ix, index)
         THEN [ret |-> Some(index),
               it |-> [cursor |-> index + 1, remaining |-> it.remaining - 1]]
         ELSE Occupied_scan(ix, it, index + 1)

\* Occupied::next / IntoOccupied::next (Indexer level and both backends).
Occupied_next(ix, it) ==
    IF it.remaining = 0 THEN [ret |-> None, it |-> it]
    ELSE Occupied_scan(ix, it, it.cursor)

\* `for index in ix.occupied()`: the positions yielded up to the first None.
RECURSIVE Occupied_rest(_, _)
Occupied_rest(ix, it) ==
    LET r == Occupied_next(ix, it)
    IN  IF IsSome(r.ret) THEN <<Unwrap(r.ret)>> \o Occupied_rest(ix, r.it)
        ELSE <<>>
Indexer_occupied(ix) == Occupied_rest(ix, Occupied_new(ix))

\* bit_array::UnOccupied::new / bit_vec::UnOccupied::new:
\* remaining = capacity() - len(), a usize subtraction.
UnOccupied_new(ix, debug) ==
    IF debug /\ Indexer_len(ix) > Indexer_capacity(ix)
    THEN [out |-> "panic", it |-> [cursor |-> 0, remaining |-> 0]]
    ELSE [out |-> "ok",
          it |-> [cursor |-> 0,
                  remaining |-> Indexer_capacity(ix) - Indexer_len(ix)]]

\* The word test written as `!= 0`: a word with any bit set counts as full.
WordIsFull_nonzero(entry) == entry # 0

\* The test `self.bit_array.entries[byte_position] == usize::MAX`.
WordIsFull(entry) == entry = WordMax

\* The loop of bit_array::UnOccupied::next and bit_vec::UnOccupied::next,
\* entered at `index` with the cursor at `cursor`.  On a word boundary the
\* word is indexed directly (a panic when it lies beyond entries.len());
\* `continue` moves to index + 1, whatever was added to the cursor.
RECURSIVE UnOccupied_scan(_, _, _, _)
UnOccupied_scan(ix, remaining, cursor, index) ==
    IF index >= Indexer_capacity(ix)
    THEN [out |-> "ok", ret |-> None,
          it |-> [cursor |-> cursor, remaining |-> remaining]]
    ELSE IF index % BITS = 0
         THEN IF ~(index \div BITS < Len(ix.entries))
              THEN [out |-> "panic", ret |-> None,
                    it |-> [cursor |-> cursor, remaining |-> remaining]]
              ELSE IF WordIsFull(ix.entries[(index \div BITS) + 1])
                   THEN UnOccupied_scan(ix, remaining, cursor + BITS, index + 1)
                   ELSE IF ~Indexer_contains(ix, index)
                        THEN [out |-> "ok", ret |-> Some(index),
                              it |-> [cursor |-> cursor,
                                      remaining |-> remaining - 1]]
                        ELSE UnOccupied_scan(ix, remaining, cursor, index + 1)
         ELSE IF ~Indexer_contains(ix, index)
              THEN [out |-> "ok", ret |-> Some(index),
                    it |-> [cursor |-> cursor + 1, remaining |-> remaining - 1]]
              ELSE UnOccupied_scan(ix, remaining, cursor + 1, index + 1)

\* bit_array::UnOccupied::next / bit_vec::UnOccupied::next
Backend_UnOccupied_next(ix, it) ==
    IF it.remaining = 0 THEN [out |-> "ok", ret |-> None, it |-> it]
    ELSE UnOccupied_scan(ix, it.remaining, it.cursor, it.cursor)

\* `n` successive calls of next() on one backend UnOccupied iterator: what
\* each call returned, up to a panic.
RECURSIVE UnOccupied_take(_, _, _)
UnOccupied_take(ix, it, n) ==
    IF n = 0 THEN [out |-> "ok", rets |-> <<>>]
    ELSE LET r == Backend_UnOccupied_next(ix, it)
         IN  IF r.out = "panic" THEN [out |-> "panic", rets |-> <<>>]
             ELSE LET t == UnOccupied_take(ix, r.it, n - 1)
                  IN  [out |-> t.out, rets |-> <<r.ret>> \o t.rets]

\* indexer::UnOccupied::next: an exhausted inline backend answers with the
\* first position past it, Some(u64::BITS * CAPACITY).
UnOccupied_next(ix, it) ==
    LET r == Backend_UnOccupied_next(ix, it)
    IN  IF ix.inner = "BitArray" /\ r.out = "ok" /\ r.ret = None
        THEN [r EXCEPT !.ret = Some(BITS * CAPACITY)]
        ELSE r

\* `self.index.unoccupied().next()` as Slab::insert calls it.
Indexer_first_unoccupied(ix, debug) ==
    LET n == UnOccupied_new(ix, debug)
    IN  IF n.out = "panic" THEN [out |-> "panic", ret |-> None]
        ELSE LET r == UnOccupied_next(ix, n.it)
             IN  [out |-> r.out, ret |-> r.ret]

\* The loop `for index in arr.occupied() { bit_vec.insert(index) }`.
RECURSIVE InsertAll(_, _, _)
InsertAll(ix, indexes, debug) ==
    IF indexes = <<>> THEN ix
    ELSE InsertAll(BitVec_insert(ix, Head(indexes), debug).ix, Tail(indexes), debug)

\* Indexer::resize without the copy loop: the promoted BitVec starts empty.
Indexer_resize_no_copy(ix, new_len, debug) ==
    IF ix.inner = "BitVec" THEN BitVec_resize(ix, new_len)
    ELSE IF new_len > BitArray_capacity(ix)
         THEN BitVec_with_capacity(new_len)
         ELSE ix

\* Indexer::resize going back to a BitArray when a BitVec is shrunk to the
\* inline word count or less, the bits of the first CAPACITY words kept.
Indexer_resize_demoting(ix, new_len, debug) ==
    IF ix.inner = "BitVec"
    THEN IF new_len <= CAPACITY
         THEN LET v == BitVec_resize(ix, new_len)
              IN  [inner |-> "BitArray",
                   entries |-> [i \in 1..CAPACITY |->
                                   IF i <= Len(v.entries) THEN v.entries[i] ELSE 0],
                   cap |-> CAPACITY,
                   count |-> 0]
         ELSE BitVec_resize(ix, new_len)
    ELSE IF new_len > BitArray_capacity(ix)
         THEN InsertAll(BitVec_with_capacity(new_len), Indexer_occupied(ix), debug)
         ELSE ix

\* Indexer::resize: a BitVec is resized in place; a BitArray is replaced by
\* a BitVec of new_len words when new_len exceeds its capacity, and is left
\* alone otherwise.
Indexer_resize(ix, new_len, debug) ==
    IF ix.inner = "BitVec" THEN BitVec_resize(ix, new_len)
    ELSE IF new_len > BitArray_capacity(ix)
         THEN InsertAll(BitVec_with_capacity(new_len), Indexer_occupied(ix), debug)
         ELSE ix

\* Indexer::insert replacing a full BitArray by a fresh BitVec: the bits that
\* were set are not carried over.
Indexer_insert_fresh(ix, index, debug) ==
    IF ix.inner = "BitVec" THEN BitVec_insert(ix, index, debug)
    ELSE IF index >= BitArray_capacity(ix)
         THEN BitVec_insert(BitVec_with_capacity(BitArray_capacity(ix) * 2),
                            index, debug)
         ELSE BitArray_insert(ix, index, debug)

\* Indexer::insert: a BitArray asked for a position at or past its capacity
\* first resizes to capacity * 2 and then inserts again.
Indexer_insert(ix, index, debug) ==
    IF ix.inner = "BitVec" THEN BitVec_insert(ix, index, debug)
    ELSE IF index >= BitArray_capacity(ix)
         THEN BitVec_insert(Indexer_resize(ix, BitArray_capacity(ix) * 2, debug),
                            index, debug)
         ELSE BitArray_insert(ix, index, debug)

\* Inserts of a set of positions, lowest first.
RECURSIVE Indexer_insert_each(_, _, _)
Indexer_insert_each(ix, S, debug) ==
    IF S = {} THEN ix
    ELSE LET p == CHOOSE x \in S : \A y \in S : x <= y
         IN  Indexer_insert_each(Indexer_insert(ix, p, debug).ix, S \ {p}, debug)

(***************************************************************************)
(* The ordered-set backend (indexer/btree_set.rs): the index is            *)
(* [inner |-> "BTreeSet", entries |-> the set of positions].               *)
(***************************************************************************)

\* BTreeSet::new / insert / remove / clear / contains / len
BTreeSet_new == [inner |-> "BTreeSet", entries |-> {}]
BTreeSet_insert(ix, index) == [ix EXCEPT !.entries = @ \cup {index}]
BTreeSet_remove(ix, index) ==
    [ix |-> [ix EXCEPT !.entries = @ \ {index}], ret |-> index \in ix.entries]
BTreeSet_clear(ix) == [ix EXCEPT !.entries = {}]
BTreeSet_contains(ix, index) == index \in ix.entries
BTreeSet_len(ix) == Cardinality(ix.entries)

\* btree_set::UnOccupied::new: cursor 0, max = the last (largest) entry,
\* or 0 for an empty set.
BTreeSet_UnOccupied_new(ix) ==
    [cursor |-> 0,
     max |-> IF ix.entries = {} THEN 0
             ELSE CHOOSE m \in ix.entries : \A e \in ix.entries : e <= m]

\* The loop `for index in self.cursor..self.max` of UnOccupied::next entered
\* at `index`; the cursor is bumped once per iteration, and the cursor is
\* what the call returns when the loop runs out.
RECURSIVE BTreeSet_UnOccupied_scan(_, _, _)
BTreeSet_UnOccupied_scan(ix, it, index) ==
    IF index >= it.max
    THEN [ret |-> Some(index), it |-> [it EXCEPT !.cursor = index]]
    ELSE IF ~BTreeSet_contains(ix, index)
         THEN [ret |-> Some(index), it |-> [it EXCEPT !.cursor = index + 1]]
         ELSE BTreeSet_UnOccupied_scan(ix, it, index + 1)

\* btree_set::UnOccupied::next
BTreeSet_UnOccupied_next(ix, it) ==
    IF it.cursor >= it.max THEN [ret |-> Some(it.cursor), it |-> it]
    ELSE BTreeSet_UnOccupied_scan(ix, it, it.cursor)

\* `n` successive calls of next() on one iterator: what each call returned.
RECURSIVE BTreeSet_UnOccupied_take(_, _, _)
BTreeSet_UnOccupied_take(ix, it, n) ==
    IF n = 0 THEN <<>>
    ELSE LET r == BTreeSet_UnOccupied_next(ix, it)
         IN  <<r.ret>> \o BTreeSet_UnOccupied_take(ix, r.it, n - 1)

(***************************************************************************)
(* The Slab: [index, entries], entries a sequence of MaybeUninit cells.    *)
(* Slab operations return [slab, ret, out]; out is "ok", "panic", or "ub"  *)
(* when the call reads a cell that holds no value (assume_init on          *)
(* uninitialised memory).  A call that panics half way returns the slab as *)
(* it was at the panic.                                                    *)
(***************************************************************************)

\* Slab::with_capacity (Slab::new is with_capacity(0)); the Vec is empty.
Slab_with_capacity(capacity) ==
    [index |-> Indexer_with_capacity(capacity), entries |-> <<>>]

\* Slab::contains_key / Slab::len / Slab::capacity / Slab::is_empty
Slab_contains_key(slab, key) == Indexer_contains(slab.index, key)
Slab_len(slab) == Indexer_len(slab.index)
Slab_capacity(slab) == Indexer_capacity(slab.index)
Slab_is_empty(slab) == Indexer_is_empty(slab.index)

\* Vec::insert(index, element): everything from `index` on moves one place
\* to the right; panics when index > len.
Vec_insert(v, index, element) ==
    [i \in 1..(Len(v) + 1) |->
        IF i <= index THEN v[i]
        ELSE IF i = index + 1 THEN element
        ELSE v[i - 1]]

\* Vec::resize_with(new_len, MaybeUninit::uninit)
Vec_resize_with(v, new_len) ==
    [i \in 1..new_len |-> IF i <= Len(v) THEN v[i] ELSE Uninit]

\* Slab::insert storing the value with entries.push(..), at the end of the
\* slot array, instead of at the position taken from the index.
Slab_insert_push(slab, value, debug) ==
    LET u == Indexer_first_unoccupied(slab.index, debug)
    IN  IF u.out = "panic" \/ u.ret = None
        THEN [slab |-> slab, ret |-> None, out |-> "panic"]
        ELSE LET index == Unwrap(u.ret)
                 r == Indexer_insert(slab.index, index, debug)
             IN  IF r.out = "panic"
                 THEN [slab |-> slab, ret |-> None, out |-> "panic"]
                 ELSE [slab |-> [index |-> r.ix,
                                 entries |-> Append(slab.entries, value)],
                       ret |-> Some(index), out |-> "ok"]

\* Slab::insert
Slab_insert(slab, value, debug) ==
    LET u == Indexer_first_unoccupied(slab.index, debug)
    IN  IF u.out = "panic" \/ u.ret = None
        THEN [slab |-> slab, ret |-> None, out |-> "panic"]
        ELSE LET index == Unwrap(u.ret)
                 r == Indexer_insert(slab.index, index, debug)
             IN  IF r.out = "panic"
                 THEN [slab |-> slab, ret |-> None, out |-> "panic"]
                 ELSE IF index > Len(slab.entries)
                 THEN [slab |-> [slab EXCEPT !.index = r.ix],
                       ret |-> None, out |-> "panic"]
                 ELSE [slab |-> [index |-> r.ix,
                                 entries |-> Vec_insert(slab.entries, index, value)],
                       ret |-> Some(index), out |-> "ok"]

\* Slab::resize
Slab_resize(slab, new_len, debug) ==
    [index |-> Indexer_resize(slab.index, new_len, debug),
     entries |-> Vec_resize_with(slab.entries, new_len)]

\* Slab::reserve resizing to `additional` alone, the current capacity left
\* out of the sum.
Slab_reserve_additional_only(slab, additional, debug) ==
    Slab_resize(slab, additional, debug)

\* Slab::reserve
Slab_reserve(slab, additional, debug) ==
    Slab_resize(slab, Indexer_capacity(slab.index) + additional, debug)

\* Slab::clear
Slab_clear(slab) ==
    [index |-> Indexer_clear(slab.index), entries |-> <<>>]

\* Slab::remove taking the cell out with Vec::remove, which moves every
\* later cell one place to the left, instead of swapping it for an
\* uninitialised one.
Slab_remove_shift(slab, key, debug) ==
    LET r == Indexer_remove(slab.index, key, debug)
    IN  IF r.out = "panic"
        THEN [slab |-> slab, ret |-> None, out |-> "panic"]
        ELSE IF ~r.ret
        THEN [slab |-> [slab EXCEPT !.index = r.ix], ret |-> None, out |-> "ok"]
        ELSE IF ~(key < Len(slab.entries))
        THEN [slab |-> [slab EXCEPT !.index = r.ix], ret |-> None, out |-> "panic"]
        ELSE LET cell == slab.entries[key + 1]
                 after == [index |-> r.ix,
                           entries |-> [i \in 1..(Len(slab.entries) - 1) |->
                                           IF i <= key THEN slab.entries[i]
                                           ELSE slab.entries[i + 1]]]
             IN  IF cell = Uninit
                 THEN [slab |-> after, ret |-> None, out |-> "ub"]
                 ELSE [slab |-> after, ret |-> Some(cell), out |-> "ok"]

\* Slab::remove: the slot is indexed directly once the index answers true.
Slab_remove(slab, key, debug) ==
    LET r == Indexer_remove(slab.index, key, debug)
    IN  IF r.out = "panic"
        THEN [slab |-> slab, ret |-> None, out |-> "panic"]
        ELSE IF ~r.ret
        THEN [slab |-> [slab EXCEPT !.index = r.ix], ret |-> None, out |-> "ok"]
        ELSE IF ~(key < Len(slab.entries))
        THEN [slab |-> [slab EXCEPT !.index = r.ix], ret |-> None, out |-> "panic"]
        ELSE LET cell == slab.entries[key + 1]
                 after == [index |-> r.ix,
                           entries |-> [slab.entries EXCEPT ![key + 1] = Uninit]]
             IN  IF cell = Uninit
                 THEN [slab |-> after, ret |-> None, out |-> "ub"]
                 ELSE [slab |-> after, ret |-> Some(cell), out |-> "ok"]

\* Slab::get and Slab::get_mut (same body up to mutability):
\* contains_key, then entries.get(key).map(assume_init_ref).
Slab_get(slab, key) ==
    IF Slab_contains_key(slab, key)
    THEN IF key < Len(slab.entries)
         THEN IF slab.entries[key + 1] = Uninit
              THEN [ret |-> None, out |-> "ub"]
              ELSE [ret |-> Some(slab.entries[key + 1]), out |-> "ok"]
         ELSE [ret |-> None, out |-> "ok"]
    ELSE [ret |-> None, out |-> "ok"]

\* Slab::from_iter: with_capacity(size_hint upper bound or 0), then one
\* insert per item.
RECURSIVE InsertEach(_, _, _)
InsertEach(slab, values, debug) ==
    IF values = <<>> THEN slab
    ELSE InsertEach(Slab_insert(slab, Head(values), debug).slab, Tail(values), debug)
Slab_from_iter(values, hint, debug) ==
    InsertEach(Slab_with_capacity(hint), values, debug)

\* Keys: Keys::new takes index.occupied(), next maps each position to a Key.
Keys_collect(slab) == Indexer_occupied(slab.index)

\* Iter::next and Values::next driven by a `for` loop: the next occupied
\* position, then entries.get(index).map(assume_init_ref); the loop ends at
\* the first None, which is also what an out-of-range position produces.
\* Each item is <<key, value>>.
RECURSIVE Iter_rest(_, _)
Iter_rest(slab, it) ==
    LET r == Occupied_next(slab.index, it)
    IN  IF ~IsSome(r.ret) THEN [items |-> <<>>, out |-> "ok"]
        ELSE LET index == Unwrap(r.ret)
             IN  IF ~(index < Len(slab.entries))
                 THEN [items |-> <<>>, out |-> "ok"]
                 ELSE IF slab.entries[index + 1] = Uninit
                 THEN [items |-> <<>>, out |-> "ub"]
                 ELSE LET rest == Iter_rest(slab, r.it)
                      IN  [items |-> <<<<index, slab.entries[index + 1]>>>> \o rest.items,
                           out |-> rest.out]
Iter_collect(slab) == Iter_rest(slab, Occupied_new(slab.index))
Values_collect(slab) ==
    LET r == Iter_collect(slab)
    IN  [items |-> [i \in 1..Len(r.items) |-> r.items[i][2]], out |-> r.out]

\* Iter::new: its own Occupied iterator and a shared borrow of the cells.
Iter_new(slab) == Occupied_new(slab.index)

\* Iter::next called on the iterator `it` until it returns None, n times at
\* most.  A position whose cell holds no value makes assume_init_ref read
\* uninitialised memory: the item carries `garbage`, whatever this read
\* produced, and the walk is not followed further (out = "ub").
RECURSIVE Iter_walk(_, _, _, _)
Iter_walk(slab, it, n, garbage) ==
    IF n = 0 THEN [items |-> <<>>, it |-> it, out |-> "ok"]
    ELSE LET r == Occupied_next(slab.index, it)
         IN  IF ~IsSome(r.ret) THEN [items |-> <<>>, it |-> r.it, out |-> "ok"]
             ELSE LET index == Unwrap(r.ret)
                  IN  IF ~(index < Len(slab.entries))
                      THEN [items |-> <<>>, it |-> r.it, out |-> "ok"]
                      ELSE IF slab.entries[index + 1] = Uninit
                      THEN [items |-> <<<<index, garbage>>>>, it |-> r.it, out |-> "ub"]
                      ELSE LET rest == Iter_walk(slab, r.it, n - 1, garbage)
                           IN  [items |-> <<<<index, slab.entries[index + 1]>>>> \o rest.items,
                                it |-> rest.it, out |-> rest.out]

\* ValuesMut::next driven by a `for` loop.  The state is the Occupied
\* iterator `it`, the number of cells the slice iterator has passed
\* (`passed`) and prev_index.  skip is 0 on the first call and
\* index - prev_index - 1 afterwards; advance_by passes `skip` cells, then
\* entries.next() hands out the cell the slice iterator stands at, if any.
\* Each item is <<position of the cell in the slot array, its value>>.
RECURSIVE ValuesMut_rest(_, _, _, _)
ValuesMut_rest(slab, it, passed, prev_index) ==
    LET r == Occupied_next(slab.index, it)
    IN  IF ~IsSome(r.ret) THEN [items |-> <<>>, out |-> "ok"]
        ELSE LET index == Unwrap(r.ret)
                 skip == IF prev_index = None THEN 0
                         ELSE index - Unwrap(prev_index) - 1
                 at == passed + skip
             IN  IF ~(at < Len(slab.entries))
                 THEN [items |-> <<>>, out |-> "ok"]
                 ELSE IF slab.entries[at + 1] = Uninit
                 THEN [items |-> <<>>, out |-> "ub"]
                 ELSE LET rest == ValuesMut_rest(slab, r.it, at + 1, Some(index))
                      IN  [items |-> <<<<at, slab.entries[at + 1]>>>> \o rest.items,
                           out |-> rest.out]

\* ValuesMut::new: index.occupied(), entries.iter_mut(), prev_index None.
ValuesMut_collect(slab) ==
    ValuesMut_rest(slab, Occupied_new(slab.index), 0, None)

(***************************************************************************)
(* Teardown.  A destructor run reports the values it dropped, in order, as *)
(* [dropped, out]; it stops at a panic (a slot indexed out of bounds) and  *)
(* at undefined behaviour (assume_init_drop or assume_init on a cell that  *)
(* holds no value).                                                        *)
(***************************************************************************)

\* `for index in positions { self.entries[index].assume_init_drop() }`
RECURSIVE Drop_each(_, _)
Drop_each(cells, positions) ==
    IF positions = <<>> THEN [dropped |-> <<>>, out |-> "ok"]
    ELSE LET index == Head(positions)
         IN  IF ~(index < Len(cells))
             THEN [dropped |-> <<>>, out |-> "panic"]
             ELSE IF cells[index + 1] = Uninit
             THEN [dropped |-> <<>>, out |-> "ub"]
             ELSE LET rest == Drop_each(cells, Tail(positions))
                  IN  [dropped |-> <<cells[index + 1]>> \o rest.dropped,
                       out |-> rest.out]

\* <Slab as Drop>::drop
Slab_drop(slab) == Drop_each(slab.entries, Indexer_occupied(slab.index))

\* Dropping a MaybeUninit<T> runs no destructor of T.
MaybeUninit_drop(cell) == <<>>

\* The values dropped by Vec::clear on the MaybeUninit cells: each cell is
\* dropped as a MaybeUninit<T>.
RECURSIVE Vec_clear_dropped(_)
Vec_clear_dropped(v) ==
    IF v = <<>> THEN <<>>
    ELSE MaybeUninit_drop(Head(v)) \o Vec_clear_dropped(Tail(v))

\* The values dropped by Slab::clear: index.clear() drops none,
\* entries.clear() those of Vec::clear.
Slab_clear_dropped(slab) == Vec_clear_dropped(slab.entries)

\* The values dropped by Slab::resize: Indexer::resize drops none, and
\* entries.resize_with(new_len, ..) truncates the Vec to new_len, dropping
\* each cell it cuts off as a MaybeUninit<T>.
Slab_resize_dropped(slab, new_len) ==
    IF new_len < Len(slab.entries)
    THEN Vec_clear_dropped(SubSeq(slab.entries, new_len + 1, Len(slab.entries)))
    ELSE <<>>

\* IntoIter::new / IntoValues::new: the index becomes an IntoOccupied, the
\* cells are taken over as they are.
IntoIter_new(slab) == [it |-> Occupied_new(slab.index), cells |-> slab.entries]

\* IntoIter::next / IntoValues::next called up to n times (until None);
\* each item is <<position, value>>.  `ix` is the index the IntoOccupied owns.
RECURSIVE IntoIter_take(_, _, _)
IntoIter_take(ix, iter, n) ==
    IF n = 0 THEN [items |-> <<>>, iter |-> iter, out |-> "ok"]
    ELSE LET r == Occupied_next(ix, iter.it)
         IN  IF ~IsSome(r.ret)
             THEN [items |-> <<>>, iter |-> [iter EXCEPT !.it = r.it], out |-> "ok"]
             ELSE LET index == Unwrap(r.ret)
                  IN  IF ~(index < Len(iter.cells))
                      THEN [items |-> <<>>, iter |-> [iter EXCEPT !.it = r.it],
                            out |-> "panic"]
                      ELSE IF iter.cells[index + 1] = Uninit
                      THEN [items |-> <<>>, iter |-> [iter EXCEPT !.it = r.it],
                            out |-> "ub"]
                      ELSE LET rest == IntoIter_take(ix,
                                           [it |-> r.it,
                                            cells |-> [iter.cells EXCEPT ![index + 1] = Uninit]],
                                           n - 1)
                           IN  [items |-> <<<<index, iter.cells[index + 1]>>>> \o rest.items,
                                iter |-> rest.iter, out |-> rest.out]

\* <IntoIter as Drop>::drop / <IntoValues as Drop>::drop
IntoIter_drop(ix, iter) == Drop_each(iter.cells, Occupied_rest(ix, iter.it))

\* slab.into_iter(), n calls of next, then the drop of the iterator.  When
\* a next panics or hits undefined behaviour the run ends there: every
\* position the unwinding drop would visit lies beyond the one that failed.
IntoIter_run(slab, n) ==
    LET t == IntoIter_take(slab.index, IntoIter_new(slab), n)
    IN  IF t.out # "ok"
        THEN [yielded |-> t.items, dropped |-> <<>>, out |-> t.out]
        ELSE LET d == IntoIter_drop(slab.index, t.iter)
             IN  [yielded |-> t.items, dropped |-> d.dropped, out |-> d.out]

(***************************************************************************)
(* The state machine: one Slab<usize> and the calls a single owner makes.  *)
(***************************************************************************)
VARIABLES
    index,       \* Slab::index, an Indexer record
    entries,     \* Slab::entries, the MaybeUninit cells
    debug,       \* TRUE for a build with overflow checks and debug_assert!
    status,      \* "ok"; "panic" or "ub" once a call has panicked / hit UB
    last,        \* the last call: [op, arg, ret]
    ops,         \* mutating calls made so far
    next_value,  \* the value the next insert stores (1, 2, 3, ...)
    live,        \* positions returned by an insert with no remove of that
                 \* key and no clear since
    retired,     \* positions returned by an insert and since given to remove
                 \* or wiped by clear
    net,         \* inserts minus removes that returned Some, since the last clear
    held         \* for each position in `live`, the value passed to the insert
                 \* that returned it last

vars == <<index, entries, debug, status, last, ops, next_value, live, retired, net, held>>

slab == [index |-> index, entries |-> entries]

Call(op, arg, ret) == [op |-> op, arg |-> arg, ret |-> ret]

\* The keys handed to remove, get, get_mut and contains_key.
KeyArgs == (0..MaxKey) \cup {Indexer_capacity(index), FarKey}

\* What a read of uninitialised memory may produce: any usize the model
\* knows, 0 standing for the values that were never stored.
Garbage == 0..(next_value - 1)

\* The slab is built by Slab::from_iter from n values and a size hint that is
\* absent (0) or an upper bound of n; n = 0 gives Slab::new() and
\* Slab::with_capacity(hint).
Init ==
    \E n \in 0..MaxInit, hint \in {0, BITS * CAPACITY} \cup (0..MaxInit), d \in BOOLEAN :
        /\ hint = 0 \/ hint >= n
        /\ LET s == Slab_from_iter([i \in 1..n |-> i], hint, d)
           IN  /\ index = s.index
               /\ entries = s.entries
        /\ debug = d
        /\ status = "ok"
        /\ last = Call("from_iter", hint, None)
        /\ ops = 0
        /\ next_value = n + 1
        /\ live = 0..(n - 1)
        /\ retired = {}
        /\ net = n
        /\ held = [k \in 0..(n - 1) |-> k + 1]

Mutating == status = "ok" /\ ops < MaxOps
Observing == status = "ok"

\* slab.insert(next_value)
Insert ==
    /\ Mutating
    /\ LET r == Slab_insert(slab, next_value, debug)
       IN  /\ Len(r.slab.index.entries) <= MaxWords
           /\ index' = r.slab.index
           /\ entries' = r.slab.entries
           /\ status' = r.out
           /\ last' = Call("insert", next_value, r.ret)
           /\ live' = IF r.out = "ok" THEN live \cup {Unwrap(r.ret)} ELSE live
           /\ net' = IF r.out = "ok" THEN net + 1 ELSE net
           /\ held' = IF r.out = "ok"
                      THEN [k \in DOMAIN held \cup {Unwrap(r.ret)} |->
                               IF k = Unwrap(r.ret) THEN next_value ELSE held[k]]
                      ELSE held
    /\ ops' = ops + 1
    /\ next_value' = next_value + 1
    /\ UNCHANGED <<debug, retired>>

\* slab.remove(key)
Remove(key) ==
    /\ Mutating
    /\ LET r == Slab_remove(slab, key, debug)
       IN  /\ index' = r.slab.index
           /\ entries' = r.slab.entries
           /\ status' = r.out
           /\ \E g \in (IF r.out = "ub" THEN Garbage ELSE {0}) :
                 last' = Call("remove", key, IF r.out = "ub" THEN Some(g) ELSE r.ret)
           /\ net' = IF r.out = "ok" /\ IsSome(r.ret) THEN net - 1 ELSE net
    /\ live' = live \ {key}
    /\ retired' = IF key \in live THEN retired \cup {key} ELSE retired
    /\ held' = [k \in DOMAIN held \ {key} |-> held[k]]
    /\ ops' = ops + 1
    /\ UNCHANGED <<debug, next_value>>

\* slab.clear()
Clear ==
    /\ Mutating
    /\ LET s == Slab_clear(slab)
       IN  /\ index' = s.index
           /\ entries' = s.entries
    /\ last' = Call("clear", 0, None)
    /\ live' = {}
    /\ retired' = retired \cup live
    /\ net' = 0
    /\ held' = [k \in {} |-> 0]
    /\ ops' = ops + 1
    /\ UNCHANGED <<debug, status, next_value>>

\* slab.reserve(additional)
Reserve(additional) ==
    /\ Mutating
    /\ Indexer_capacity(index) + additional <= MaxWords
    /\ LET s == Slab_reserve(slab, additional, debug)
       IN  /\ index' = s.index
           /\ entries' = s.entries
    /\ last' = Call("reserve", additional, None)
    /\ ops' = ops + 1
    /\ UNCHANGED <<debug, status, next_value, live, retired, net, held>>

\* slab.resize(new_len)
Resize(new_len) ==
    /\ Mutating
    /\ LET s == Slab_resize(slab, new_len, debug)
       IN  /\ index' = s.index
           /\ entries' = s.entries
    /\ last' = Call("resize", new_len, None)
    /\ ops' = ops + 1
    /\ UNCHANGED <<debug, status, next_value, live, retired, net, held>>

\* slab.contains_key(key)
ContainsKey(key) ==
    /\ Observing
    /\ last' = Call("contains_key", key, <<Slab_contains_key(slab, key)>>)
    /\ UNCHANGED <<index, entries, debug, status, ops, next_value, live, retired, net, held>>

\* slab.get(key) (op = "get") and slab.get_mut(key) (op = "get_mut")
Fetch(op, key) ==
    /\ Observing
    /\ LET r == Slab_get(slab, key)
       IN  /\ status' = r.out
           /\ \E g \in (IF r.out = "ub" THEN Garbage ELSE {0}) :
                 last' = Call(op, key, IF r.out = "ub" THEN Some(g) ELSE r.ret)
    /\ UNCHANGED <<index, entries, debug, ops, next_value, live, retired, net, held>>
Get(key) == Fetch("get", key)
GetMut(key) == Fetch("get_mut", key)

\* `for key in slab.keys()`
Keys ==
    /\ Observing
    /\ last' = Call("keys", 0, Keys_collect(slab))
    /\ UNCHANGED <<index, entries, debug, status, ops, next_value, live, retired, net, held>>

\* `for value in slab.values()`
Values ==
    /\ Observing
    /\ LET r == Values_collect(slab)
       IN  /\ status' = r.out
           /\ last' = Call("values", 0, r.items)
    /\ UNCHANGED <<index, entries, debug, ops, next_value, live, retired, net, held>>

\* `for (key, value) in slab.iter()`
Iter ==
    /\ Observing
    /\ LET r == Iter_collect(slab)
       IN  /\ status' = r.out
           /\ last' = Call("iter", 0, r.items)
    /\ UNCHANGED <<index, entries, debug, ops, next_value, live, retired, net, held>>

Next ==
    \/ Insert
    \/ \E key \in KeyArgs : Remove(key)
    \/ Clear
    \/ \E additional \in 0..MaxReserve : Reserve(additional)
    \/ \E new_len \in 0..MaxResize : Resize(new_len)
    \/ \E key \in KeyArgs : ContainsKey(key)
    \/ \E key \in KeyArgs : Get(key)
    \/ \E key \in KeyArgs : GetMut(key)
    \/ Keys
    \/ Values
    \/ Iter

Spec == Init /\ [][Next]_vars

\* Every call but Slab::resize: the slab as driven through insert, remove,
\* clear, reserve and the read-only calls.
NextNoResize ==
    \/ Insert
    \/ \E key \in KeyArgs : Remove(key)
    \/ Clear
    \/ \E additional \in 0..MaxReserve : Reserve(additional)
    \/ \E key \in KeyArgs : ContainsKey(key)
    \/ \E key \in KeyArgs : Get(key)
    \/ \E key \in KeyArgs : GetMut(key)
    \/ Keys
    \/ Values
    \/ Iter

SpecNoResize == Init /\ [][NextNoResize]_vars

(***************************************************************************)
(* The views of the slab: after any calls of insert, remove, clear and     *)
(* reserve, the values are walked through values_mut(), or through two     *)
(* iter() iterators that are alive at the same time.                       *)
(***************************************************************************)

\* `for value in slab.values_mut()`; last.ret is the <<position, value>> of
\* each cell handed out.
ValuesMut ==
    /\ Observing
    /\ LET r == ValuesMut_collect(slab)
       IN  /\ status' = r.out
           /\ last' = Call("values_mut", 0, r.items)
    /\ UNCHANGED <<index, entries, debug, ops, next_value, live, retired, net, held>>

\* What the reads of uninitialised memory made by a walk over the slab may
\* produce: nothing to choose when the walk meets no such cell.
ReadGarbage ==
    IF Iter_walk(slab, Iter_new(slab), Indexer_capacity(index) + 1, 0).out = "ub"
    THEN Garbage ELSE {0}

\* let mut a = slab.iter(); let mut b = slab.iter(); a is advanced n times,
\* then b is walked to its end, then a is walked to its end.  last.ret is
\* <<items of a, items of b>>.
IterPair(n) ==
    /\ Observing
    /\ \E ga \in ReadGarbage, gb \in ReadGarbage :
          LET all == Indexer_capacity(index) + 1
              a1 == Iter_walk(slab, Iter_new(slab), n, ga)
              b == Iter_walk(slab, Iter_new(slab), all, gb)
              a2 == IF a1.out = "ok" /\ Len(a1.items) = n
                    THEN Iter_walk(slab, a1.it, all, ga)
                    ELSE [items |-> <<>>, it |-> a1.it, out |-> a1.out]
          IN  /\ status' = IF a1.out = "ok" /\ a2.out = "ok" /\ b.out = "ok"
                           THEN "ok" ELSE "ub"
              /\ last' = Call("iter_pair", n, <<a1.items \o a2.items, b.items>>)
    /\ UNCHANGED <<index, entries, debug, ops, next_value, live, retired, net, held>>

ViewsNext ==
    \/ Insert
    \/ \E key \in KeyArgs : Remove(key)
    \/ Clear
    \/ \E additional \in 0..MaxReserve : Reserve(additional)
    \/ ValuesMut
    \/ \E n \in 0..MaxYield : IterPair(n)

SpecViews == Init /\ [][ViewsNext]_vars

(***************************************************************************)
(* Teardown of the slab: after any calls of insert, remove, clear and      *)
(* reserve the slab is dropped, or consumed by into_iter / into_values     *)
(* whose iterator is dropped after at most n items.  The slab variables    *)
(* keep the value the slab had when it was given up; last.ret is the       *)
(* dropped values (drop) or <<yielded items, dropped values>>.             *)
(***************************************************************************)
Ended(out) == IF out = "ok" THEN "dropped" ELSE out

\* drop(slab)
DropSlab ==
    /\ Observing
    /\ LET d == Slab_drop(slab)
       IN  /\ status' = Ended(d.out)
           /\ last' = Call("drop", 0, d.dropped)
    /\ UNCHANGED <<index, entries, debug, ops, next_value, live, retired, net, held>>

\* slab.into_iter() (op = "into_iter") or slab.into_values() (op =
\* "into_values"), n items taken, the iterator dropped.
Consume(op, n) ==
    /\ Observing
    /\ LET r == IntoIter_run(slab, n)
           items == IF op = "into_iter" THEN r.yielded
                    ELSE [i \in 1..Len(r.yielded) |-> r.yielded[i][2]]
       IN  /\ status' = Ended(r.out)
           /\ last' = Call(op, n, <<items, r.dropped>>)
    /\ UNCHANGED <<index, entries, debug, ops, next_value, live, retired, net, held>>
IntoIter(n) == Consume("into_iter", n)
IntoValues(n) == Consume("into_values", n)

TeardownNext ==
    \/ Insert
    \/ \E key \in KeyArgs : Remove(key)
    \/ Clear
    \/ \E additional \in 0..MaxReserve : Reserve(additional)
    \/ DropSlab
    \/ \E n \in 0..MaxYield : IntoIter(n)
    \/ \E n \in 0..MaxYield : IntoValues(n)

SpecTeardown == Init /\ [][TeardownNext]_vars

(***************************************************************************)
(* The differential test (tests/differential.rs): a slab made by           *)
(* Slab::new() takes Insert, Fetch, Remove, Contains, Clear and Reserve    *)
(* operations, each result compared with that of a reference allocator.    *)
(***************************************************************************)
DiffInit == Init /\ next_value = 1 /\ last.arg = 0

DiffNext ==
    \/ Insert
    \/ \E key \in KeyArgs : Get(key)
    \/ \E key \in KeyArgs : Remove(key)
    \/ \E key \in KeyArgs : ContainsKey(key)
    \/ Clear
    \/ \E additional \in 0..MaxReserve : Reserve(additional)

SpecDifferential == DiffInit /\ [][DiffNext]_vars

\* The reference allocator, a map from occupied keys to values.  Up to the
\* first result that differs, the keys it has handed out are the ones the
\* subject has handed out, so its state is `held`.  It hands out the lowest
\* free key, answers get, try_remove and contains from the map and never
\* fails.
Oracle_insert(h) ==
    CHOOSE k \in 0..Cardinality(DOMAIN h) :
        k \notin DOMAIN h /\ \A j \in 0..(k - 1) : j \in DOMAIN h
Oracle_get(h, key) == IF key \in DOMAIN h THEN Some(h[key]) ELSE None
Oracle_try_remove(h, key) == Oracle_get(h, key)
Oracle_contains(h, key) == key \in DOMAIN h

(***************************************************************************)
(* The Indexer driven directly, as the tests of indexer/mod.rs drive it:   *)
(* `index` is the Indexer, the slot array and the bookkeeping of the Slab  *)
(* stay empty.                                                             *)
(***************************************************************************)

\* The positions handed to insert, remove and contains: the small ones, the
\* position `capacity * 2` of test::resize for the inline backend, and the
\* first position past the BitVec that a promotion by insert creates.
PosArgs == (0..MaxPos) \cup {2 * BITS * CAPACITY, 2 * BITS * BITS * CAPACITY}

\* The lengths handed to Indexer::resize: shrinking ones and one that
\* exceeds the inline capacity.
LenArgs == (0..MaxResize) \cup {BITS * CAPACITY + 1}

\* Indexer::new() or Indexer::with_capacity(c), then inserts of positions
\* below the capacity.
IxInit ==
    \E c \in {0, BITS * CAPACITY, MaxInit}, S \in SUBSET (0..(BITS * CAPACITY - 1)),
       d \in BOOLEAN :
        /\ index = Indexer_insert_each(Indexer_with_capacity(c), S, d)
        /\ entries = <<>>
        /\ debug = d
        /\ status = "ok"
        /\ last = Call("with_capacity", c, None)
        /\ ops = 0
        /\ next_value = 1
        /\ live = {}
        /\ retired = {}
        /\ net = 0
        /\ held = [k \in {} |-> 0]

\* indexer.insert(pos)
IxInsert(pos) ==
    /\ Mutating
    /\ LET r == Indexer_insert(index, pos, debug)
       IN  /\ index' = r.ix
           /\ status' = r.out
    /\ last' = Call("Indexer::insert", pos, None)
    /\ ops' = ops + 1
    /\ UNCHANGED <<entries, debug, next_value, live, retired, net, held>>

\* indexer.remove(pos)
IxRemove(pos) ==
    /\ Mutating
    /\ LET r == Indexer_remove(index, pos, debug)
       IN  /\ index' = r.ix
           /\ status' = r.out
           /\ last' = Call("Indexer::remove", pos, <<r.ret>>)
    /\ ops' = ops + 1
    /\ UNCHANGED <<entries, debug, next_value, live, retired, net, held>>

\* indexer.clear()
IxClear ==
    /\ Mutating
    /\ index' = Indexer_clear(index)
    /\ last' = Call("Indexer::clear", 0, None)
    /\ ops' = ops + 1
    /\ UNCHANGED <<entries, debug, status, next_value, live, retired, net, held>>

\* indexer.resize(new_len)
IxResize(new_len) ==
    /\ Mutating
    /\ index' = Indexer_resize(index, new_len, debug)
    /\ last' = Call("Indexer::resize", new_len, None)
    /\ ops' = ops + 1
    /\ UNCHANGED <<entries, debug, status, next_value, live, retired, net, held>>

IxNext ==
    \/ \E pos \in PosArgs : IxInsert(pos)
    \/ \E pos \in PosArgs : IxRemove(pos)
    \/ IxClear
    \/ \E new_len \in LenArgs : IxResize(new_len)

SpecIndexer == IxInit /\ [][IxNext]_vars

(***************************************************************************)
(* The Indexer driven directly, with its iterators: next to the calls of   *)
(* SpecIndexer, the positions of occupied() are collected, next() is       *)
(* called up to MaxNext times on one unoccupied() iterator of the backend, *)
(* and the first element of unoccupied() is looked up as Slab::insert      *)
(* does.                                                                   *)
(***************************************************************************)

\* indexer.occupied().collect() (into_occupied() runs the same scan)
IxOccupied ==
    /\ Observing
    /\ last' = Call("Indexer::occupied", 0, Indexer_occupied(index))
    /\ UNCHANGED <<index, entries, debug, status, ops, next_value, live,
                   retired, net, held>>

\* let mut it = backend.unoccupied(); it.next() called n times
IxUnoccupied(n) ==
    /\ Observing
    /\ LET u == UnOccupied_new(index, debug)
           t == UnOccupied_take(index, u.it, n)
       IN  IF u.out = "panic"
           THEN /\ status' = "panic"
                /\ last' = Call("UnOccupied::next", n, <<>>)
           ELSE /\ status' = t.out
                /\ last' = Call("UnOccupied::next", n, t.rets)
    /\ UNCHANGED <<index, entries, debug, ops, next_value, live, retired, net, held>>

\* indexer.unoccupied().next()
IxFirstUnoccupied ==
    /\ Observing
    /\ LET r == Indexer_first_unoccupied(index, debug)
       IN  /\ status' = r.out
           /\ last' = Call("Indexer::unoccupied", 0, r.ret)
    /\ UNCHANGED <<index, entries, debug, ops, next_value, live, retired, net, held>>

IxIterNext ==
    \/ IxNext
    \/ IxOccupied
    \/ \E n \in 1..MaxNext : IxUnoccupied(n)
    \/ IxFirstUnoccupied

SpecIndexerIter == IxInit /\ [][IxIterNext]_vars

(***************************************************************************)
(* Filling a slab: Slab::new() or Slab::with_capacity(BITS * CAPACITY),    *)
(* then up to MaxFill inserts, then the inserts and removes of Next.  A    *)
(* slab built with the smallest dynamic index is full after MaxFill        *)
(* inserts.                                                                *)
(***************************************************************************)
FillInit ==
    \E n \in 0..MaxFill, c \in {0, BITS * CAPACITY}, d \in BOOLEAN :
        /\ LET s == InsertEach(Slab_with_capacity(c), [i \in 1..n |-> i], d)
           IN  /\ index = s.index
               /\ entries = s.entries
        /\ debug = d
        /\ status = "ok"
        /\ last = Call("with_capacity", c, None)
        /\ ops = 0
        /\ next_value = n + 1
        /\ live = 0..(n - 1)
        /\ retired = {}
        /\ net = n
        /\ held = [k \in 0..(n - 1) |-> k + 1]

FillNext ==
    \/ Insert
    \/ \E key \in KeyArgs : Remove(key)

SpecFill == FillInit /\ [][FillNext]_vars

(***************************************************************************)
(* The ordered-set backend driven directly: BTreeSet::new(), then inserts, *)
(* removes and clears, and next() called up to MaxNext times on one        *)
(* unoccupied() iterator.                                                  *)
(***************************************************************************)
BtInit ==
    /\ index = BTreeSet_new
    /\ entries = <<>>
    /\ debug \in BOOLEAN
    /\ status = "ok"
    /\ last = Call("BTreeSet::new", 0, None)
    /\ ops = 0
    /\ next_value = 1
    /\ live = {}
    /\ retired = {}
    /\ net = 0
    /\ held = [k \in {} |-> 0]

\* set.insert(pos)
BtInsert(pos) ==
    /\ Mutating
    /\ index' = BTreeSet_insert(index, pos)
    /\ last' = Call("BTreeSet::insert", pos, None)
    /\ ops' = ops + 1
    /\ UNCHANGED <<entries, debug, status, next_value, live, retired, net, held>>

\* set.remove(pos)
BtRemove(pos) ==
    /\ Mutating
    /\ LET r == BTreeSet_remove(index, pos)
       IN  /\ index' = r.ix
           /\ last' = Call("BTreeSet::remove", pos, <<r.ret>>)
    /\ ops' = ops + 1
    /\ UNCHANGED <<entries, debug, status, next_value, live, retired, net, held>>

\* set.clear()
BtClear ==
    /\ Mutating
    /\ index' = BTreeSet_clear(index)
    /\ last' = Call("BTreeSet::clear", 0, None)
    /\ ops' = ops + 1
    /\ UNCHANGED <<entries, debug, status, next_value, live, retired, net, held>>

\* let mut it = set.unoccupied(); it.next() called n times
BtUnoccupied(n) ==
    /\ Observing
    /\ last' = Call("BTreeSet::unoccupied", n,
                    BTreeSet_UnOccupied_take(index, BTreeSet_UnOccupied_new(index), n))
    /\ UNCHANGED <<index, entries, debug, status, ops, next_value, live,
                   retired, net, held>>

BtNext ==
    \/ \E pos \in 0..MaxPos : BtInsert(pos)
    \/ \E pos \in 0..MaxPos : BtRemove(pos)
    \/ BtClear
    \/ \E n \in 1..MaxNext : BtUnoccupied(n)

SpecBTreeSet == BtInit /\ [][BtNext]_vars

(***************************************************************************)
(* Vocabulary of the properties.                                           *)
(***************************************************************************)
slab_next == [index |-> index', entries |-> entries']

\* The positions the index reports occupied.
OccupiedSet(ix) == {p \in 0..Indexer_capacity(ix) : Indexer_contains(ix, p)}

\* A finite set of numbers as an ascending sequence.
RECURSIVE Ascending(_)
Ascending(S) ==
    IF S = {} THEN <<>>
    ELSE LET m == CHOOSE x \in S : \A y \in S : x <= y
         IN  <<m>> \o Ascending(S \ {m})

\* The lowest position for which contains is false.
LowestUnoccupied(ix) ==
    CHOOSE p \in 0..Indexer_capacity(ix) :
        /\ ~Indexer_contains(ix, p)
        /\ \A q \in 0..(p - 1) : Indexer_contains(ix, q)

\* The step is the call `op` (a mutating call: ops goes up by one).
Called(op) == last'.op = op /\ ops' = ops + 1
Returned == status' = "ok"

(***************************************************************************)
(* C1 - From every reachable slab, insert(v) followed at once by remove of  *)
(* the returned key returns Some(v): neither call panics and the value     *)
(* that comes back is v.                                                   *)
(***************************************************************************)
C1_InsertThenRemove ==
    status = "ok" =>
        LET i == Slab_insert(slab, next_value, debug)
        IN  /\ i.out = "ok"
            /\ LET r == Slab_remove(i.slab, Unwrap(i.ret), debug)
               IN  r.out = "ok" /\ r.ret = Some(next_value)

(***************************************************************************)
(* C2 - A remove(key) that returns gives Some exactly when contains_key     *)
(* (key) held just before the call, the value being the one get(key) would *)
(* have returned, and contains_key(key) is false just after it.            *)
(***************************************************************************)
C2_RemoveIffContained ==
    [][(Called("remove") /\ Returned) =>
          /\ IsSome(last'.ret) <=> Slab_contains_key(slab, last'.arg)
          /\ IsSome(last'.ret) =>
                 /\ Slab_get(slab, last'.arg).out = "ok"
                 /\ Slab_get(slab, last'.arg).ret = last'.ret
          /\ ~Slab_contains_key(slab_next, last'.arg)]_vars

(***************************************************************************)
(* C3 - remove(key) with key below the capacity and not occupied returns    *)
(* None without panicking and changes nothing: len(), the occupied keys    *)
(* and the value at each occupied key stay as they were.                   *)
(***************************************************************************)
C3_RemoveVacantIsNoop ==
    [][(/\ Called("remove")
        /\ last'.arg < Slab_capacity(slab)
        /\ ~Slab_contains_key(slab, last'.arg)) =>
          /\ status' = "ok"
          /\ last'.ret = None
          /\ Slab_len(slab_next) = Slab_len(slab)
          /\ OccupiedSet(index') = OccupiedSet(index)
          /\ \A k \in OccupiedSet(index) :
                 Slab_get(slab_next, k) = Slab_get(slab, k)]_vars

(***************************************************************************)
(* C4 - remove(key) with key at or beyond the current capacity returns None *)
(* and does not panic, in either backend.                                  *)
(***************************************************************************)
C4_RemoveOutOfRange ==
    [][(Called("remove") /\ last'.arg >= Slab_capacity(slab)) =>
          /\ status' = "ok"
          /\ last'.ret = None]_vars

\* A remove of the key equal to the capacity has returned None although the
\* position `ret` was read from (key / BITS) is occupied.
C4_Witness ==
    /\ last.op = "remove"
    /\ status = "ok"
    /\ last.arg = Slab_capacity(slab)
    /\ Slab_contains_key(slab, last.arg \div BITS)
    /\ last.ret = None

(***************************************************************************)
(* C5 - A key k returned by insert is contained (contains_key(k)) in every  *)
(* state from that insert until a remove(k) or a clear(), and is not       *)
(* contained in any state after that remove or clear.                      *)
(***************************************************************************)
C5_ContainedUntilRemovedThenNever ==
    status = "ok" =>
        /\ \A k \in live : Slab_contains_key(slab, k)
        /\ \A k \in retired : ~Slab_contains_key(slab, k)

(***************************************************************************)
(* C5, amended - In every call that returns: a key returned by insert is    *)
(* contained right after that insert; a contained key stops being          *)
(* contained only in a remove of that key, a clear() or a resize(n) that   *)
(* truncates the index below it (n words end before the key); and a key    *)
(* that is not contained becomes contained only in an insert that returns  *)
(* it - which happens again for a position that was removed earlier.       *)
(***************************************************************************)
C5_ContainedUntilRemovedOrReissued ==
    [][/\ ops' = ops => index' = index
       /\ (ops' # ops /\ Returned) =>
            /\ Called("insert") => Slab_contains_key(slab_next, Unwrap(last'.ret))
            /\ \A k \in OccupiedSet(index) \ OccupiedSet(index') :
                   \/ Called("remove") /\ last'.arg = k
                   \/ Called("clear")
                   \/ Called("resize") /\ BITS * last'.arg <= k
            /\ \A k \in OccupiedSet(index') \ OccupiedSet(index) :
                   Called("insert") /\ last'.ret = Some(k)]_vars

\* An insert has just returned a key that an earlier remove or clear retired.
C5_Witness ==
    /\ last.op = "insert"
    /\ status = "ok"
    /\ Unwrap(last.ret) \in retired
    /\ Unwrap(last.ret) \in live
    /\ Slab_contains_key(slab, Unwrap(last.ret))

(***************************************************************************)
(* C6 - After any sequence of calls, len() is the number of inserts minus   *)
(* the number of removes that returned Some, counted since the last clear. *)
(***************************************************************************)
C6_LenIsInsertsMinusRemoves ==
    status = "ok" => Slab_len(slab) = net

(***************************************************************************)
(* C7 - The key an insert returns is the lowest position that was not       *)
(* occupied just before the call, in the inline and in the dynamic backend.*)
(***************************************************************************)
C7_InsertReturnsLowestFree ==
    [][(Called("insert") /\ Returned) =>
          last'.ret = Some(LowestUnoccupied(index))]_vars

\* An insert on the dynamic backend has just filled a hole: a higher position
\* is occupied.
C7_Witness ==
    /\ last.op = "insert"
    /\ status = "ok"
    /\ index.inner = "BitVec"
    /\ \E p \in OccupiedSet(index) : p > Unwrap(last.ret)

(***************************************************************************)
(* C8 - An insert that returns disturbs no existing entry: the returned key *)
(* was not occupied before the call, and get(k) gives the same value after *)
(* the call as before it for every key k that was occupied.                *)
(***************************************************************************)
C8_InsertKeepsEntries ==
    [][(Called("insert") /\ Returned) =>
          /\ ~Slab_contains_key(slab, Unwrap(last'.ret))
          /\ \A k \in OccupiedSet(index) :
                 Slab_get(slab_next, k) = Slab_get(slab, k)]_vars

(***************************************************************************)
(* C9 - get(key) and get_mut(key) return Some exactly when contains_key     *)
(* (key) is true, and for a stale or out-of-range key they return None,    *)
(* without panicking and without reading a vacant slot.                    *)
(***************************************************************************)
C9_GetIffContained ==
    last.op \in {"get", "get_mut"} =>
        /\ status = "ok"
        /\ IsSome(last.ret) <=> Slab_contains_key(slab, last.arg)

(***************************************************************************)
(* C10 - keys(), values() and iter() each yield one item per occupied key,  *)
(* in strictly ascending key order, none for a vacant position, and len()  *)
(* items in all.                                                           *)
(***************************************************************************)
C10_IterationYieldsOccupied ==
    LET expected == Ascending(OccupiedSet(index))
        Stored(i) == /\ expected[i] < Len(entries)
                     /\ entries[expected[i] + 1] # Uninit
    IN  /\ last.op \in {"keys", "values", "iter"} =>
              /\ status = "ok"
              /\ Len(last.ret) = Len(expected)
              /\ Len(last.ret) = Slab_len(slab)
        /\ last.op = "keys" => last.ret = expected
        /\ last.op = "values" =>
              \A i \in 1..Len(expected) :
                  Stored(i) /\ last.ret[i] = entries[expected[i] + 1]
        /\ last.op = "iter" =>
              \A i \in 1..Len(expected) :
                  Stored(i) /\ last.ret[i] = <<expected[i], entries[expected[i] + 1]>>

(***************************************************************************)
(* C11 - After reserve(n), every key that was occupied before the call is   *)
(* still occupied, and get on it returns what it returned before the call. *)
(***************************************************************************)
C11_ReserveKeepsEntries ==
    [][Called("reserve") =>
          /\ status' = "ok"
          /\ \A k \in OccupiedSet(index) :
                 /\ Slab_contains_key(slab_next, k)
                 /\ Slab_get(slab_next, k) = Slab_get(slab, k)]_vars

(***************************************************************************)
(* C12 - After reserve(n), capacity() is at least the capacity before the   *)
(* call plus n, in the inline and in the dynamic backend.                  *)
(***************************************************************************)
C12_ReserveGrowsCapacity ==
    [][Called("reserve") =>
          /\ status' = "ok"
          /\ Slab_capacity(slab_next) >= Slab_capacity(slab) + last'.arg]_vars

\* A reserve(n) with n > 0 has returned on a slab that was already in the
\* dynamic backend (more words than the promotion by this call would give)
\* and holds values.
C12_Witness ==
    /\ last.op = "reserve"
    /\ status = "ok"
    /\ last.arg > 0
    /\ index.inner = "BitVec"
    /\ Len(index.entries) > BITS * CAPACITY + last.arg
    /\ OccupiedSet(index) # {}

(***************************************************************************)
(* C13 - Promotion is transparent: when an Indexer in the inline backend    *)
(* gets an insert at a position at or beyond the inline capacity, it moves *)
(* to the dynamic backend and every position that was set before the      *)
(* insert is still reported by contains after it.                          *)
(***************************************************************************)
C13_PromotionKeepsPositions ==
    [][(/\ Called("Indexer::insert")
        /\ index.inner = "BitArray"
        /\ last'.arg >= BitArray_capacity(index)) =>
          /\ index'.inner = "BitVec"
          /\ \A p \in OccupiedSet(index) : Indexer_contains(index', p)
          /\ Returned => Indexer_contains(index', last'.arg)]_vars

\* The insert at `capacity * 2` of test::resize has returned: the index is
\* the BitVec of capacity * 2 words that only a promotion by insert creates,
\* and it reports the new position and an inline one.
C13_Witness ==
    /\ last.op = "Indexer::insert"
    /\ status = "ok"
    /\ last.arg = 2 * BITS * CAPACITY
    /\ index.inner = "BitVec"
    /\ Len(index.entries) = 2 * BITS * CAPACITY
    /\ Indexer_contains(index, last.arg)
    /\ \E p \in 0..(BITS * CAPACITY - 1) : Indexer_contains(index, p)

(***************************************************************************)
(* C14 - In the differential test every observed result equals that of the  *)
(* reference allocator at each step: the key an insert returns, the value  *)
(* a fetch returns, the outcome of a remove and the outcome of a           *)
(* membership test; no operation of the subject panics.                    *)
(***************************************************************************)
C14_MatchesOracle ==
    [][/\ status' = "ok"
       /\ last'.op = "insert" => last'.ret = Some(Oracle_insert(held))
       /\ last'.op = "get" => last'.ret = Oracle_get(held, last'.arg)
       /\ last'.op = "remove" => last'.ret = Oracle_try_remove(held, last'.arg)
       /\ last'.op = "contains_key" =>
              last'.ret = <<Oracle_contains(held, last'.arg)>>]_vars

\* The values in the slots of the positions occ[from], occ[from + 1], ...
SlotsFrom(occ, from) ==
    [i \in 1..(Len(occ) - from + 1) |->
        IF occ[from + i - 1] < Len(entries) THEN entries[occ[from + i - 1] + 1]
        ELSE Uninit]

\* Every item of the sequence is a stored value and none occurs twice.
EachOnce(values) ==
    /\ \A i \in 1..Len(values) : values[i] # Uninit
    /\ \A i, j \in 1..Len(values) : values[i] = values[j] => i = j

(***************************************************************************)
(* C15 - A consuming iterator (into_iter or into_values) over a slab with M *)
(* occupied entries, dropped after yielding N of them, drops each of the   *)
(* other M - N values exactly once in its teardown and none of the N       *)
(* yielded values; neither next nor the teardown panics or reads a vacant  *)
(* slot.                                                                   *)
(***************************************************************************)
C15_PartialConsumeDropsRest ==
    last.op \in {"into_iter", "into_values"} =>
        LET occ == Ascending(OccupiedSet(index))
            yielded == last.ret[1]
            dropped == last.ret[2]
            N == IF last.arg < Len(occ) THEN last.arg ELSE Len(occ)
        IN  /\ status = "dropped"
            /\ Len(yielded) = N
            /\ dropped = SlotsFrom(occ, N + 1)
            /\ EachOnce(dropped)
            /\ \A i \in 1..N : \A j \in 1..Len(dropped) :
                   entries[occ[i] + 1] # dropped[j]

(***************************************************************************)
(* C16 - When the slab is dropped, the value at every position the index    *)
(* reports occupied is dropped exactly once, and no vacant slot is read or *)
(* dropped (and the destructor does not panic).                            *)
(***************************************************************************)
C16_DropDropsOccupied ==
    last.op = "drop" =>
        /\ status = "dropped"
        /\ last.ret = SlotsFrom(Ascending(OccupiedSet(index)), 1)
        /\ EachOnce(last.ret)

(***************************************************************************)
(* C17 - After any sequence of calls, for every position p: the index       *)
(* reports p occupied exactly when slot p of the slot array holds a live   *)
(* value, the one written by the last insert that returned p, with no      *)
(* remove of p and no clear since.                                         *)
(***************************************************************************)
C17_IndexMatchesSlots ==
    status = "ok" =>
        \A p \in 0..Max(Indexer_capacity(index), Len(entries)) :
            Slab_contains_key(slab, p) <=>
                /\ p \in DOMAIN held
                /\ p < Len(entries)
                /\ entries[p + 1] = held[p]

(***************************************************************************)
(* C18 - In every reachable state, also right after with_capacity, reserve  *)
(* and resize, the length of the slot array equals the capacity the index  *)
(* reports.                                                                *)
(***************************************************************************)
C18_SlotsLenIsCapacity ==
    status = "ok" => Len(entries) = Indexer_capacity(index)

(***************************************************************************)
(* C19 - clear() drops every value that was occupied at the time of the     *)
(* call exactly once, and none of them is dropped again by the teardown of *)
(* the cleared slab.                                                       *)
(***************************************************************************)
C19_ClearDropsOccupied ==
    [][Called("clear") =>
          LET dropped == Slab_clear_dropped(slab)
              later == Slab_drop(slab_next).dropped
          IN  /\ status' = "ok"
              /\ dropped = SlotsFrom(Ascending(OccupiedSet(index)), 1)
              /\ EachOnce(dropped)
              /\ \A i \in 1..Len(dropped) : \A j \in 1..Len(later) :
                     dropped[i] # later[j]]_vars

C22_WithCapacityPreallocates ==
    (ops = 0 /\ last.op = "from_iter" /\ slab = Slab_with_capacity(last.arg)) =>
        /\ Slab_len(slab) = 0
        /\ OccupiedSet(index) = {}
        /\ Slab_capacity(slab) = last.arg
        /\ Len(entries) = last.arg

\* No position below the capacity is free.
IndexIsFull(ix) == \A p \in 0..(Indexer_capacity(ix) - 1) : Indexer_contains(ix, p)

(***************************************************************************)
(* C23 - Slab::insert never fails: it returns a key without panicking, and *)
(* when no position below the current capacity is free it first grows the  *)
(* capacity to at least twice the previous capacity, whichever backend the *)
(* index is in.                                                            *)
(***************************************************************************)
C23_InsertNeverFails ==
    [][Called("insert") =>
          /\ status' = "ok"
          /\ IsSome(last'.ret)
          /\ IndexIsFull(index) =>
                 Indexer_capacity(index') >= 2 * Indexer_capacity(index)]_vars

(***************************************************************************)
(* C24 - Indexer remove(pos): if pos is set it clears pos, lowers len() by *)
(* exactly one and returns true; if pos is not set, in range or out of     *)
(* range, it returns false, leaves len() and every position as they were,  *)
(* and does not panic.                                                     *)
(***************************************************************************)
C24_IndexRemove ==
    [][Called("Indexer::remove") =>
          LET pos == last'.arg
              was == Indexer_contains(index, pos)
          IN  /\ status' = "ok"
              /\ last'.ret = <<was>>
              /\ OccupiedSet(index') = OccupiedSet(index) \ {pos}
              /\ Indexer_len(index') = Indexer_len(index) - (IF was THEN 1 ELSE 0)]_vars

(***************************************************************************)
(* C25 - For every index state, occupied() (and the consuming              *)
(* into_occupied()) yields exactly the set positions, each once, in        *)
(* strictly ascending order: len() items and then None.  Every call starts *)
(* again from position 0.                                                  *)
(***************************************************************************)
C25_OccupiedYieldsSetPositions ==
    [][last'.op = "Indexer::occupied" =>
          /\ last'.ret = Ascending(OccupiedSet(index))
          /\ Len(last'.ret) = Indexer_len(index)
          /\ Indexer_occupied(index') = last'.ret]_vars

\* The positions below the capacity for which contains is false.
FreeSet(ix) == {p \in 0..(Indexer_capacity(ix) - 1) : ~Indexer_contains(ix, p)}

\* What n calls of next() return on an iterator that yields `positions` and
\* then None.
YieldsThenNone(positions, n) ==
    [i \in 1..n |-> IF i <= Len(positions) THEN Some(positions[i]) ELSE None]

(***************************************************************************)
(* C26 - For the word-oriented backends (BitArray, BitVec), successive     *)
(* calls of next() on one unoccupied() iterator yield every free position  *)
(* below the capacity exactly once, in strictly ascending order, never an  *)
(* occupied position, and then None.                                       *)
(***************************************************************************)
C26_UnoccupiedYieldsFreePositions ==
    [][last'.op = "UnOccupied::next" =>
          /\ status' = "ok"
          /\ last'.ret = YieldsThenNone(Ascending(FreeSet(index)), last'.arg)]_vars

(***************************************************************************)
(* C27 - The free-position lookup of the index, the first element of       *)
(* unoccupied(), returns the lowest free position, and returns none when   *)
(* every position below the capacity is occupied.                          *)
(***************************************************************************)
C27_FirstUnoccupiedIsLowestFree ==
    [][last'.op = "Indexer::unoccupied" =>
          /\ status' = "ok"
          /\ last'.ret = IF IndexIsFull(index) THEN None
                         ELSE Some(LowestUnoccupied(index))]_vars

(***************************************************************************)
(* C28 - Indexer resize(n): when growing, every set position stays set,    *)
(* every newly addressable position is free and len() is unchanged; when   *)
(* shrinking, contains reports no position at or beyond the new capacity n *)
(* and len() is the number of set positions in the retained range.         *)
(***************************************************************************)
C28_IndexResize ==
    [][Called("Indexer::resize") =>
          LET n == last'.arg
          IN  /\ status' = "ok"
              /\ n > Indexer_capacity(index) =>
                     /\ OccupiedSet(index') = OccupiedSet(index)
                     /\ Indexer_len(index') = Indexer_len(index)
              /\ n < Indexer_capacity(index) =>
                     /\ OccupiedSet(index') = {p \in OccupiedSet(index) : p < n}
                     /\ Indexer_len(index') = Cardinality(OccupiedSet(index'))]_vars

(***************************************************************************)
(* C29 - An index starts in the inline backend and stays there while every *)
(* inserted position is below the inline capacity; an insert at any        *)
(* position pos at or beyond the inline capacity switches it to the        *)
(* dynamic backend, after which contains(pos) is true, pos < capacity()    *)
(* and len() is exactly one more than before the insert.                   *)
(***************************************************************************)
C29_PromotionByInsert ==
    [][(Called("Indexer::insert") /\ index.inner = "BitArray") =>
          LET pos == last'.arg
          IN  IF pos < BITS * CAPACITY
              THEN index'.inner = "BitArray"
              ELSE /\ status' = "ok"
                   /\ index'.inner = "BitVec"
                   /\ Indexer_contains(index', pos)
                   /\ pos < Indexer_capacity(index')
                   /\ Indexer_len(index') = Indexer_len(index) + 1]_vars

(***************************************************************************)
(* C30 - There is no demotion: once the index is in the dynamic backend,   *)
(* no insert, remove, clear or resize (shrinking ones included) returns it *)
(* to the inline backend.                                                  *)
(***************************************************************************)
C30_NoDemotion ==
    [][index.inner = "BitVec" => index'.inner = "BitVec"]_vars

\* A dynamic index has been shrunk by resize to fewer words than the inline
\* backend holds, and is still dynamic.
C30_Witness ==
    /\ last.op = "Indexer::resize"
    /\ last.arg < CAPACITY
    /\ status = "ok"
    /\ index.inner = "BitVec"
    /\ Len(index.entries) < CAPACITY

(***************************************************************************)
(* C31 - values_mut() yields one reference per occupied position, in       *)
(* ascending position order, the i-th item being the slot at the i-th      *)
(* occupied position; it never yields a vacant slot and yields exactly     *)
(* len() items.                                                            *)
(***************************************************************************)
C31_ValuesMutYieldsOccupiedSlots ==
    [][last'.op = "values_mut" =>
          LET occupied == Ascending(OccupiedSet(index))
          IN  /\ status' = "ok"
              /\ Len(last'.ret) = Slab_len(slab)
              /\ Len(last'.ret) = Len(occupied)
              /\ \A i \in 1..Len(last'.ret) : last'.ret[i][1] = occupied[i]]_vars

(***************************************************************************)
(* C32 - into_iter() yields, for each occupied position in ascending       *)
(* order, the pair (Key(position), value stored under that key), each      *)
(* once, and then None; into_values() yields the same values in the same   *)
(* order.                                                                  *)
(***************************************************************************)
C32_ConsumingIterationYieldsPairs ==
    last.op \in {"into_iter", "into_values"} =>
        LET occ == Ascending(OccupiedSet(index))
            yielded == last.ret[1]
            N == IF last.arg < Len(occ) THEN last.arg ELSE Len(occ)
        IN  /\ Len(yielded) = N
            /\ \A i \in 1..N :
                   /\ occ[i] \in DOMAIN held
                   /\ yielded[i] = IF last.op = "into_iter"
                                   THEN <<occ[i], held[occ[i]]>>
                                   ELSE held[occ[i]]

C34_KeysNotVersioned ==
    [][(Called("insert") /\ Returned) =>
          \A k \in retired :
              last'.ret = Some(k) =>
                  /\ Slab_contains_key(slab_next, k)
                  /\ Slab_get(slab_next, k) = [ret |-> Some(last'.arg), out |-> "ok"]]_vars

\* An insert has returned the position of a key that a remove had released,
\* and the old key resolves to the value just inserted.
C34_Witness ==
    /\ last.op = "insert"
    /\ status = "ok"
    /\ IsSome(last.ret)
    /\ Unwrap(last.ret) \in retired
    /\ Len(entries) > 1
    /\ Slab_get(slab, Unwrap(last.ret)) = [ret |-> Some(last.arg), out |-> "ok"]

(***************************************************************************)
(* C35 - After Slab::resize(n) with n below the highest occupied position, *)
(* no truncated slot that still holds a live value can be observed: either *)
(* the shrink is refused (the slab is as before), or every value at a      *)
(* position >= n has been dropped and contains_key, get and remove treat   *)
(* every such position as absent, without panicking.                       *)
(***************************************************************************)
C35_ShrinkDropsTruncated ==
    [][(Called("resize") /\ \E p \in OccupiedSet(index) : last'.arg < p) =>
          LET n == last'.arg
              cut == {p \in OccupiedSet(index) : p >= n}
              dropped == Slab_resize_dropped(slab, n)
          IN  \/ slab_next = slab
              \/ /\ status' = "ok"
                 /\ dropped = SlotsFrom(Ascending(cut), 1)
                 /\ EachOnce(dropped)
                 /\ \A p \in cut :
                        /\ ~Slab_contains_key(slab_next, p)
                        /\ Slab_get(slab_next, p) = [ret |-> None, out |-> "ok"]
                        /\ Slab_remove(slab_next, p, debug) =
                               [slab |-> slab_next, ret |-> None, out |-> "ok"]]_vars

(***************************************************************************)
(* C36 - For the ordered-set (BTreeSet) backend, the first position        *)
(* yielded by unoccupied() is the lowest position not contained in the     *)
(* set, and no position yielded by unoccupied() is contained in the set.   *)
(***************************************************************************)
C36_BTreeSetUnoccupied ==
    [][last'.op = "BTreeSet::unoccupied" =>
          LET yielded == last'.ret
              lowest == CHOOSE p \in 0..(MaxPos + 1) :
                            /\ ~BTreeSet_contains(index, p)
                            /\ \A q \in 0..(p - 1) : BTreeSet_contains(index, q)
          IN  /\ yielded[1] = Some(lowest)
              /\ \A i \in 1..Len(yielded) :
                     IsSome(yielded[i]) =>
                         ~BTreeSet_contains(index, Unwrap(yielded[i]))]_vars

(***************************************************************************)
(* C37 - No public Slab operation indexes the slot array out of bounds: in *)
(* every reachable state every position the index reports occupied is      *)
(* below the length of the slot array, so the direct indexing in remove,   *)
(* in Drop and in the consuming iterators cannot panic.                    *)
(***************************************************************************)
C37_NoOutOfBoundsIndexing ==
    status = "ok" =>
        /\ \A p \in OccupiedSet(index) : p < Len(entries)
        /\ \A key \in KeyArgs :
               LET r == Indexer_remove(index, key, debug)
               IN  (r.out = "ok" /\ r.ret) => key < Len(entries)
        /\ Slab_drop(slab).out # "panic"
        /\ \A n \in 0..MaxYield : IntoIter_run(slab, n).out # "panic"

(***************************************************************************)
(* C38 - In the dynamic (BitVec) backend, after any sequence of insert,    *)
(* remove, clear and resize calls, the counter returned by len() equals    *)
(* the number of positions p for which contains(p) is true, and is_empty() *)
(* holds exactly when no position is set.                                  *)
(***************************************************************************)
C38_CounterMatchesBits ==
    (status = "ok" /\ index.inner = "BitVec") =>
        /\ Indexer_len(index) = Cardinality(OccupiedSet(index))
        /\ Indexer_is_empty(index) <=> OccupiedSet(index) = {}

(***************************************************************************)
(* C39 - A successful remove(k) affects only k: every other key that was   *)
(* occupied before the call is still occupied and resolves to the same     *)
(* value afterwards, and capacity() is unchanged.                          *)
(***************************************************************************)
C39_RemoveAffectsOnlyKey ==
    [][(Called("remove") /\ Returned /\ IsSome(last'.ret)) =>
          /\ Slab_capacity(slab_next) = Slab_capacity(slab)
          /\ \A j \in OccupiedSet(index) \ {last'.arg} :
                 /\ Slab_contains_key(slab_next, j)
                 /\ Slab_get(slab_next, j) = Slab_get(slab, j)]_vars

\* A remove has returned a value while a key above it and a key below it
\* were occupied; both still resolve to values.
C39_Witness ==
    /\ last.op = "remove"
    /\ status = "ok"
    /\ IsSome(last.ret)
    /\ \E i, j \in OccupiedSet(index) :
           /\ i < last.arg /\ last.arg < j
           /\ IsSome(Slab_get(slab, i).ret)
           /\ IsSome(Slab_get(slab, j).ret)
====
